---- MODULE Spec2Model ----
(***************************************************************************)
(* Model of the real-time chat subsystem of binary-dot:                    *)
(*   ChatGateway    (src/src/chat/chat.gateway.ts, lines 26-274)           *)
(*   ChatController (src/src/chat/chat.gateway.ts, lines 280-408)          *)
(*   ChatService    (src/unnamed/part_002)                                 *)
(*   chats / chat_participants / chat_messages tables (src/unnamed/part_006)*)
(*                                                                         *)
(* Every await of a handler is a scheduling point: an async handler is a   *)
(* call record whose pc names the statement it resumes at, and one action  *)
(* runs it up to its next await.                                           *)
(***************************************************************************)
EXTENDS Integers, FiniteSets, Sequences, TLC

None == "none"

\* The users table: u1 hosts the event, u2 and u3 are ordinary users.
Users == {"u1", "u2", "u3"}

\* Transport connections (socket.io sockets); an id is used for one connection.
Sockets == {"s1", "s2", "s3"}

\* handshake.auth.token: absent, or the token issued to a user.
Tokens == {None} \cup Users

\* handshake.auth.userId: absent, or whatever user id the client chose to send.
AuthIds == {None} \cup Users

VARIABLES
    conn,            \* socket -> "new" | "connected" | "disconnected"
    handshake,       \* socket -> [token, userId] as sent by the client
    userId,          \* socket -> client.userId (None while unset)
    connectedUsers,  \* ChatGateway.connectedUsers : userId -> socket id
    socketRooms,     \* socket -> the socket.io rooms it has joined
    latest,          \* history: user -> the socket that registered for it last
    out,             \* what the last handler step emitted: {[to, ev, ...]}, to a
                     \* socket, to a request ("http") or to the error log ("log")
    now,             \* the store's clock (new Date(), CURRENT_TIMESTAMP)
    eventParticipants, \* event_participants rows: {[eventId, userId]}
    joinCalls,       \* joinEvent calls in flight: {[id, userId, eventId, pc]}
    chats,           \* chats rows: {[id, eventId, updatedAt]}
    chatParticipants, \* chat_participants rows: {[chatId, userId, isActive]}
    roomCalls,       \* getOrCreateChat calls in flight: {[id, eventId, a, b, pc]}
    roomResults,     \* what finished getOrCreateChat calls returned
    nRoomCalls,      \* number of createOrGetChat requests so far
    chatMessages,    \* chat_messages rows in the order of their insertion
    sendCalls,       \* sendMessage calls in flight
    histCalls,       \* getChatMessages calls in flight
    markCalls,       \* markMessageAsRead calls in flight
    observed,        \* history: [userId, msg] for each newMessage delivered to
                     \* a socket of that user
    typed            \* history: the ids of the sendMessage calls in flight that a
                     \* later typing signal of their socket has overtaken

sessionVars == <<conn, handshake, userId, connectedUsers, socketRooms, latest>>

roomVars == <<eventParticipants, joinCalls, chats, chatParticipants, roomCalls, roomResults,
              nRoomCalls>>

msgVars == <<chatMessages, sendCalls, histCalls, markCalls, observed, typed>>

vars == <<conn, handshake, userId, connectedUsers, socketRooms, latest, out, now,
          eventParticipants, joinCalls, chats, chatParticipants, roomCalls, roomResults,
          nRoomCalls, chatMessages, sendCalls, histCalls, markCalls, observed, typed>>

userRoom(u) == <<"user", u>>
chatRoom(c) == <<"chat", c>>

\* The sockets currently connected to the /chat namespace.
Connected == {s \in Sockets : conn[s] = "connected"}

\* The sockets of the namespace while handleConnection(client) runs (socket.io
\* has added the client) and while handleDisconnect(client) runs (it has
\* removed the client).
nspOnConnect(client) == Connected \cup {client}
nspOnDisconnect(client) == Connected \ {client}

\* Variant of broadcastEmit: this.server.emit(ev, payload) reaches every
\* socket of the namespace, the client included.
serverEmit(client, nsp, ev, u) ==
    {[to |-> t, ev |-> ev, userId |-> u] : t \in nsp}

\* client.broadcast.emit(ev, payload): every socket of the namespace but the
\* client itself.
broadcastEmit(client, nsp, ev, u) ==
    {[to |-> t, ev |-> ev, userId |-> u] : t \in nsp \ {client}}

\* this.server.to(room): the connected sockets that joined the room.
inRoom(room) == {s \in Connected : room \in socketRooms[s]}

\* ChatGateway.isUserOnline
isUserOnline(u) == connectedUsers[u] # None

\* ChatGateway.getOnlineUsers
getOnlineUsers == {u \in Users : connectedUsers[u] # None}

\* The gateway after construction: no socket has connected.
InitSession ==
    /\ conn = [s \in Sockets |-> "new"]
    /\ handshake = [s \in Sockets |-> [token |-> None, userId |-> None]]
    /\ userId = [s \in Sockets |-> None]
    /\ connectedUsers = [u \in Users |-> None]
    /\ socketRooms = [s \in Sockets |-> {}]
    /\ latest = [u \in Users |-> None]
    /\ out = {}

\* The events table: e1 is hosted by u1, e2 by u2.
Events == {"e1", "e2"}

creatorId(e) == IF e = "e1" THEN "u1" ELSE "u2"

\* The store before any chat exists: u2 has joined e1, u3 has joined nothing.
InitStore ==
    /\ now = 0
    /\ eventParticipants = {[eventId |-> "e1", userId |-> "u2"]}
    /\ joinCalls = {}
    /\ chats = {}
    /\ chatParticipants = {}
    /\ roomCalls = {}
    /\ roomResults = {}
    /\ nRoomCalls = 0
    /\ chatMessages = <<>>
    /\ sendCalls = {}
    /\ histCalls = {}
    /\ markCalls = {}
    /\ observed = {}
    /\ typed = {}

\* Variant of handleDisconnect without the `if (client.userId)` guard.
handleDisconnectUnguarded(client) ==
    /\ connectedUsers' = [u \in Users |->
                             IF u = userId[client] THEN None ELSE connectedUsers[u]]
    /\ out' = broadcastEmit(client, nspOnDisconnect(client), "userOffline",
                            userId[client])

Init == InitSession /\ InitStore

\* ChatGateway.handleDisconnect(client)
handleDisconnect(client) ==
    IF userId[client] # None
    THEN /\ connectedUsers' = [connectedUsers EXCEPT ![userId[client]] = None]
         /\ out' = broadcastEmit(client, nspOnDisconnect(client), "userOffline",
                                 userId[client])
    ELSE /\ UNCHANGED connectedUsers
         /\ out' = {}

\* socket.io closes the socket: it leaves its rooms and the gateway's
\* handleDisconnect runs on the 'disconnect' event.
closeSocket(client) ==
    /\ conn' = [conn EXCEPT ![client] = "disconnected"]
    /\ socketRooms' = [socketRooms EXCEPT ![client] = {}]
    /\ handleDisconnect(client)

\* ChatGateway.handleConnection(client), the client having sent the handshake
\* {auth: {token: tok, userId: uid}}.
handleConnection(client, tok, uid) ==
    /\ conn[client] = "new"
    /\ handshake' = [handshake EXCEPT ![client] = [token |-> tok, userId |-> uid]]
    /\ IF tok = None \/ uid = None
       THEN \* client.disconnect(); return
            /\ closeSocket(client)
            /\ UNCHANGED <<userId, latest>>
       ELSE /\ userId' = [userId EXCEPT ![client] = uid]
            /\ connectedUsers' = [connectedUsers EXCEPT ![uid] = client]
            /\ socketRooms' = [socketRooms EXCEPT ![client] = {userRoom(uid)}]
            /\ conn' = [conn EXCEPT ![client] = "connected"]
            /\ latest' = [latest EXCEPT ![uid] = client]
            /\ out' = broadcastEmit(client, nspOnConnect(client), "userOnline", uid)
    /\ UNCHANGED <<now, roomVars, msgVars>>

\* The transport of a connected socket closes.
Disconnect(client) ==
    /\ conn[client] = "connected"
    /\ closeSocket(client)
    /\ UNCHANGED <<handshake, userId, latest, now, roomVars, msgVars>>

Connect == \E s \in Sockets, tok \in Tokens, uid \in AuthIds : handleConnection(s, tok, uid)

Drop == \E s \in Sockets : Disconnect(s)

NextSession == Connect \/ Drop

SpecSession == Init /\ [][NextSession]_vars

(***************************************************************************)
(* Rooms: ChatController.createOrGetChat and ChatService.getOrCreateChat   *)
(***************************************************************************)

\* Bound on the number of createOrGetChat requests of a behaviour.
MaxRoomCalls == 2

\* The :eventId of a request: an event, or an id of no event.
EventIds == Events \cup {"e9"}

\* The id of the n-th chats row.
chatId(n) == "c" \o ToString(n)

\* chat.participants
participantsOf(c) == {p \in chatParticipants : p.chatId = c}

\* The user ids of chat.participants.
membersOf(c) == {p.userId : p \in participantsOf(c)}

\* Variant of chatsEvery whose filter leaves out the event.
chatsEveryAnyEvent(e, a, b) ==
    {c \in chats : membersOf(c.id) \subseteq {a, b}}

\* where: {eventId, participants: {every: {userId: {in: [a, b]}}}}
chatsEvery(e, a, b) ==
    {c \in chats : c.eventId = e /\ membersOf(c.id) \subseteq {a, b}}

\* eventParticipant.findFirst({where: {eventId, userId: {in: [a, b]}}})
isParticipant(e, a, b) ==
    \E ep \in eventParticipants : ep.eventId = e /\ ep.userId \in {a, b}

\* isHost of getOrCreateChat
isHost(e, a, b) == creatorId(e) = a \/ creatorId(e) = b

\* The answer of the controller to a request: [to |-> "http", ...].
httpReply(op, caller, ok, data) ==
    {[to |-> "http", ev |-> op, userId |-> caller, ok |-> ok, data |-> data]}

\* this.logger.error(..., error) of a catch block.
logError(message) == {[to |-> "log", ev |-> "error", data |-> message]}

\* getOrCreateChat returns chat c: the controller answers with it.
returnChat(call, c) ==
    /\ roomCalls' = roomCalls \ {call}
    /\ roomResults' = roomResults \cup
           {[eventId |-> call.eventId, users |-> {call.a, call.b}, caller |-> call.a,
             chatId |-> c]}
    /\ out' = httpReply("createOrGetChat", call.a, TRUE, c)

\* getOrCreateChat throws: the controller logs the error and answers
\* BadRequestException(error.message).
throwRoomCall(call, message) ==
    /\ roomCalls' = roomCalls \ {call}
    /\ UNCHANGED roomResults
    /\ out' = logError(message) \cup httpReply("createOrGetChat", call.a, FALSE, message)

\* getOrCreateChat goes on to its next query.
stepRoomCall(call, pc) ==
    /\ roomCalls' = (roomCalls \ {call}) \cup {[call EXCEPT !.pc = pc]}
    /\ UNCHANGED roomResults
    /\ out' = {}

\* ChatController.createOrGetChat(eventId, userId, {participantId}) up to the
\* first query of getOrCreateChat(eventId, userId, participantId).
createOrGetChat(e, uid, pid) ==
    /\ nRoomCalls < MaxRoomCalls
    /\ nRoomCalls' = nRoomCalls + 1
    /\ IF pid = None
       THEN \* throw new BadRequestException('Participant ID is required')
            /\ out' = httpReply("createOrGetChat", uid, FALSE, "Participant ID is required")
            /\ UNCHANGED roomCalls
       ELSE /\ roomCalls' = roomCalls \cup
                   {[id |-> nRoomCalls + 1, eventId |-> e, a |-> uid, b |-> pid,
                     pc |-> "findEvent"]}
            /\ out' = {}
    /\ UNCHANGED roomResults
    /\ UNCHANGED <<sessionVars, now, eventParticipants, joinCalls, chats, chatParticipants,
                   msgVars>>

\* getOrCreateChat: event.findUnique and the check of its result.
roomFindEvent(call) ==
    /\ call.pc = "findEvent"
    /\ IF call.eventId \notin Events
       THEN throwRoomCall(call, "Event not found")
       ELSE stepRoomCall(call, "findParticipant")
    /\ UNCHANGED <<sessionVars, now, eventParticipants, joinCalls, chats, chatParticipants,
                   nRoomCalls, msgVars>>

\* getOrCreateChat: eventParticipant.findFirst and the authorization check.
roomFindParticipant(call) ==
    /\ call.pc = "findParticipant"
    /\ IF ~isHost(call.eventId, call.a, call.b)
            /\ ~isParticipant(call.eventId, call.a, call.b)
       THEN throwRoomCall(call, "User not authorized for this event")
       ELSE stepRoomCall(call, "findChat")
    /\ UNCHANGED <<sessionVars, now, eventParticipants, joinCalls, chats, chatParticipants,
                   nRoomCalls, msgVars>>

\* getOrCreateChat: chat.findFirst (any matching row: the query has no
\* orderBy) and the test `existingChat && participants.length === 2`.
roomFindChat(call) ==
    /\ call.pc = "findChat"
    /\ LET found == chatsEvery(call.eventId, call.a, call.b) IN
       IF found = {}
       THEN stepRoomCall(call, "create")
       ELSE \E c \in found :
               IF Cardinality(participantsOf(c.id)) = 2
               THEN returnChat(call, c.id)
               ELSE stepRoomCall(call, "create")
    /\ UNCHANGED <<sessionVars, now, eventParticipants, joinCalls, chats, chatParticipants,
                   nRoomCalls, msgVars>>

\* Variant of roomCreate for a store without the unique index (userId, chatId).
roomCreateNoUniqueIndex(call) ==
    /\ call.pc = "create"
    /\ LET id == chatId(Cardinality(chats) + 1) IN
       /\ now' = now + 1
       /\ chats' = chats \cup
              {[id |-> id, eventId |-> call.eventId, updatedAt |-> now']}
       /\ chatParticipants' = chatParticipants \cup
              {[chatId |-> id, userId |-> u, isActive |-> TRUE] :
                  u \in {call.a, call.b}}
       /\ returnChat(call, id)
    /\ UNCHANGED <<sessionVars, eventParticipants, joinCalls, nRoomCalls, msgVars>>

\* getOrCreateChat: chat.create with its two nested participant rows, one
\* statement of the store; the unique index (userId, chatId) rejects a = b.
roomCreate(call) ==
    /\ call.pc = "create"
    /\ IF call.a = call.b
       THEN /\ throwRoomCall(call, "Unique constraint failed")
            /\ UNCHANGED <<now, chats, chatParticipants>>
       ELSE LET id == chatId(Cardinality(chats) + 1) IN
            /\ now' = now + 1
            /\ chats' = chats \cup
                   {[id |-> id, eventId |-> call.eventId, updatedAt |-> now']}
            /\ chatParticipants' = chatParticipants \cup
                   {[chatId |-> id, userId |-> u, isActive |-> TRUE] :
                       u \in {call.a, call.b}}
            /\ returnChat(call, id)
    /\ UNCHANGED <<sessionVars, eventParticipants, joinCalls, nRoomCalls, msgVars>>

CreateOrGetChat ==
    \E e \in EventIds, uid \in Users, pid \in Users \cup {None} :
        createOrGetChat(e, uid, pid)

RoomFindEvent == \E call \in roomCalls : roomFindEvent(call)

RoomFindParticipant == \E call \in roomCalls : roomFindParticipant(call)

RoomFindChat == \E call \in roomCalls : roomFindChat(call)

RoomCreate == \E call \in roomCalls : roomCreate(call)

NextRoom ==
    \/ CreateOrGetChat
    \/ RoomFindEvent
    \/ RoomFindParticipant
    \/ RoomFindChat
    \/ RoomCreate

SpecRoom == Init /\ [][NextRoom]_vars

\* A createOrGetChat request that arrives when no other is in flight.
CreateOrGetChatAlone == roomCalls = {} /\ CreateOrGetChat

\* createOrGetChat requests one after the other.
NextRoomSeq ==
    \/ CreateOrGetChatAlone
    \/ RoomFindEvent
    \/ RoomFindParticipant
    \/ RoomFindChat
    \/ RoomCreate

SpecRoomSeq == Init /\ [][NextRoomSeq]_vars

(***************************************************************************)
(* Messages: ChatGateway.handleJoinChat, handleLeaveChat, handleSendMessage,*)
(* ChatController.sendMessage, getChatMessages and ChatService.sendMessage, *)
(* getChatMessages                                                         *)
(***************************************************************************)

\* Bound on the messages of a behaviour: those stored plus the sendMessage
\* calls in flight.
MaxSends == 2

\* The ?page and ?limit of a getChatMessages request.
Pages == {1, 2}

Limits == {1, 2}

\* The chatId of a request: the id of the first chats row, or of none.
ChatIds == {chatId(1), "c9"}

\* Message contents, as sequences of characters.
Contents == {<<"h", "i">>}

\* The store with the chat of u1 and u2 for e1, as getOrCreateChat("e1", "u2",
\* "u1") leaves it.
InitChatStore ==
    /\ now = 1
    /\ eventParticipants = {[eventId |-> "e1", userId |-> "u2"]}
    /\ joinCalls = {}
    /\ chats = {[id |-> chatId(1), eventId |-> "e1", updatedAt |-> 1]}
    /\ chatParticipants =
           {[chatId |-> chatId(1), userId |-> u, isActive |-> TRUE] : u \in {"u1", "u2"}}
    /\ roomCalls = {}
    /\ roomResults = {[eventId |-> "e1", users |-> {"u1", "u2"}, caller |-> "u2",
                        chatId |-> chatId(1)]}
    /\ nRoomCalls = 1
    /\ chatMessages = <<>>
    /\ sendCalls = {}
    /\ histCalls = {}
    /\ markCalls = {}
    /\ observed = {}
    /\ typed = {}

InitChat == InitSession /\ InitChatStore

\* The n-th id of the chat_messages table (@default(cuid())).
messageId(n) == "m" \o ToString(n)

\* How far the clock moves between two readings: two rows may get the same
\* millisecond (createdAt is TIMESTAMP(3)).
ClockSteps == {0, 1}

\* Bound on the clock of a behaviour.
MaxNow == 3

\* Message bodies: a text, or the empty string.
Bodies == Contents \cup {<<>>}

\* The ?limit of a request, a negative number included (parseInt(limit) || 50
\* keeps it).
PageLimits == Limits \cup {-1}

Reverse(s) == [i \in 1..Len(s) |-> s[Len(s) + 1 - i]]

\* chatParticipant.findFirst({where: {chatId, userId, isActive: true}})
isActiveParticipant(c, u) ==
    \E p \in chatParticipants : p.chatId = c /\ p.userId = u /\ p.isActive

\* client.emit(ev, payload): dropped when the client has disconnected.
clientEmit(client, ev, data) ==
    IF conn[client] = "connected"
    THEN {[to |-> client, ev |-> ev, data |-> data]}
    ELSE {}

\* Variant of roomEmit that emits to every connected socket.
roomEmitAll(room, ev, data) ==
    {[to |-> s, ev |-> ev, data |-> data] : s \in Connected}

\* this.server.to(room).emit(ev, payload)
roomEmit(room, ev, data) ==
    {[to |-> s, ev |-> ev, data |-> data] : s \in inRoom(room)}

\* ChatGateway.handleJoinChat(client, {chatId})
handleJoinChat(client, c) ==
    /\ conn[client] = "connected"
    /\ IF userId[client] = None
       THEN /\ out' = clientEmit(client, "error", "Not authenticated")
            /\ UNCHANGED socketRooms
       ELSE /\ socketRooms' = [socketRooms EXCEPT ![client] = @ \cup {chatRoom(c)}]
            /\ out' = clientEmit(client, "joinedChat", c)
    /\ UNCHANGED <<conn, handshake, userId, connectedUsers, latest, now, roomVars,
                   msgVars>>

\* ChatGateway.handleLeaveChat(client, {chatId})
handleLeaveChat(client, c) ==
    /\ conn[client] = "connected"
    /\ socketRooms' = [socketRooms EXCEPT ![client] = @ \ {chatRoom(c)}]
    /\ out' = clientEmit(client, "leftChat", c)
    /\ UNCHANGED <<conn, handshake, userId, connectedUsers, latest, now, roomVars,
                   msgVars>>

\* The ids of the sendMessage calls in flight together: at most two are.
CallIds == {1, 2}

\* The ids of CallIds in use.
usedIds == {k.id : k \in sendCalls}

\* A call id not in use.
freeId == CHOOSE i \in CallIds \ usedIds : TRUE

\* A sendMessage call: via "ws" from socket client, via "http" from a request
\* of the user the JwtGuard names.
sendCall(via, client, sender, c, receiver, content) ==
    [id |-> freeId, via |-> via, client |-> client, senderId |-> sender,
     chatId |-> c, receiverId |-> receiver, content |-> content,
     pc |-> "findSender", msg |-> [id |-> None]]

\* ChatGateway.handleSendMessage(client, {chatId, receiverId, content}) up to
\* the first query of chatService.sendMessage.
handleSendMessage(client, c, receiver, content) ==
    /\ conn[client] = "connected"
    /\ Len(chatMessages) + Cardinality(sendCalls) < MaxSends
    /\ usedIds # CallIds
    /\ IF userId[client] = None
       THEN /\ out' = clientEmit(client, "error", "Not authenticated")
            /\ UNCHANGED sendCalls
       ELSE /\ sendCalls' = sendCalls \cup
                   {sendCall("ws", client, userId[client], c, receiver, content)}
            /\ out' = {}
    /\ typed' = typed \ {freeId}
    /\ UNCHANGED <<sessionVars, now, roomVars, chatMessages, histCalls, markCalls, observed>>

\* ChatController.sendMessage(chatId, userId, {receiverId, content}) up to the
\* first query of chatService.sendMessage.
controllerSendMessage(sender, c, receiver, content) ==
    /\ Len(chatMessages) + Cardinality(sendCalls) < MaxSends
    /\ usedIds # CallIds
    /\ IF receiver = None \/ content = <<>>
       THEN \* throw new BadRequestException('Receiver ID and content are required')
            /\ out' = httpReply("sendMessage", sender, FALSE,
                                "Receiver ID and content are required")
            /\ UNCHANGED sendCalls
       ELSE /\ sendCalls' = sendCalls \cup
                   {sendCall("http", None, sender, c, receiver, content)}
            /\ out' = {}
    /\ typed' = typed \ {freeId}
    /\ UNCHANGED <<sessionVars, now, roomVars, chatMessages, histCalls, markCalls, observed>>

\* Variant of throwSend that emits the gateway's 'error' to the room of the chat.
throwSendToRoom(call, message) ==
    /\ sendCalls' = sendCalls \ {call}
    /\ out' = logError(message) \cup
              IF call.via = "ws"
              THEN roomEmit(chatRoom(call.chatId), "error", "Failed to send message")
              ELSE httpReply("sendMessage", call.senderId, FALSE, message)

\* chatService.sendMessage throws: the catch block logs the error; the
\* gateway emits 'error' to the client, the controller answers
\* BadRequestException(error.message).
throwSend(call, message) ==
    /\ sendCalls' = sendCalls \ {call}
    /\ out' = logError(message) \cup
              IF call.via = "ws"
              THEN clientEmit(call.client, "error", "Failed to send message")
              ELSE httpReply("sendMessage", call.senderId, FALSE, message)

stepSend(call, pc) ==
    /\ sendCalls' = (sendCalls \ {call}) \cup {[call EXCEPT !.pc = pc]}
    /\ out' = {}

\* chatService.sendMessage: the sender's chatParticipant.findFirst.
sendFindSender(call) ==
    /\ call.pc = "findSender"
    /\ IF ~isActiveParticipant(call.chatId, call.senderId)
       THEN throwSend(call, "Sender not authorized for this chat")
       ELSE stepSend(call, "findReceiver")
    /\ UNCHANGED <<sessionVars, now, roomVars, chatMessages, histCalls, markCalls, observed, typed>>

\* The ids of the rows of chat_messages, those of open transactions included.
messageIds ==
    ({chatMessages[i].id : i \in 1..Len(chatMessages)} \cup
     {k.msg.id : k \in sendCalls}) \ {None}

\* An id no row has.
freshMessageId ==
    messageId(CHOOSE n \in 1..(Cardinality(messageIds) + 1) :
                  messageId(n) \notin messageIds)

\* The chat_messages row tx.chatMessage.create inserts, the clock having moved
\* by dt.
newMessage(call, dt) ==
    [id |-> freshMessageId, chatId |-> call.chatId,
     senderId |-> call.senderId, receiverId |-> call.receiverId,
     content |-> call.content, isRead |-> FALSE, createdAt |-> now + dt]

\* Variant of sendFindReceiver that emits 'newMessage' to the room before the
\* transaction has run.
sendFindReceiverEmitsEarly(call) ==
    /\ call.pc = "findReceiver"
    /\ IF ~isActiveParticipant(call.chatId, call.receiverId)
       THEN throwSend(call, "Receiver not found in this chat") /\ UNCHANGED observed
       ELSE /\ sendCalls' = (sendCalls \ {call}) \cup {[call EXCEPT !.pc = "txCreate"]}
            /\ out' = roomEmit(chatRoom(call.chatId), "newMessage", newMessage(call, 1))
            /\ observed' = observed \cup
                   {[userId |-> userId[s], msg |-> newMessage(call, 1).id] :
                       s \in inRoom(chatRoom(call.chatId))}
    /\ UNCHANGED <<sessionVars, now, roomVars, chatMessages, histCalls, markCalls, typed>>

\* Variant of sendFindReceiver without the receiver check.
sendFindReceiverUnchecked(call) ==
    /\ call.pc = "findReceiver"
    /\ stepSend(call, "txCreate")
    /\ UNCHANGED <<sessionVars, now, roomVars, chatMessages, histCalls, markCalls, observed, typed>>

\* chatService.sendMessage: the receiver's chatParticipant.findFirst.
sendFindReceiver(call) ==
    /\ call.pc = "findReceiver"
    /\ IF ~isActiveParticipant(call.chatId, call.receiverId)
       THEN throwSend(call, "Receiver not found in this chat")
       ELSE stepSend(call, "txCreate")
    /\ UNCHANGED <<sessionVars, now, roomVars, chatMessages, histCalls, markCalls, observed, typed>>

\* Variant of sendTxCreate without prisma.$transaction: chatMessage.create
\* writes its row to the table at once.
sendTxCreateAutocommit(call, fails, dt) ==
    /\ call.pc = "txCreate"
    /\ now + dt <= MaxNow
    /\ IF fails
       THEN /\ throwSend(call, "chatMessage.create failed")
            /\ UNCHANGED <<now, chatMessages>>
       ELSE /\ now' = now + dt
            /\ chatMessages' = Append(chatMessages, newMessage(call, dt))
            /\ sendCalls' = (sendCalls \ {call}) \cup
                   {[call EXCEPT !.pc = "txUpdate", !.msg = newMessage(call, dt)]}
            /\ out' = {}
    /\ UNCHANGED <<sessionVars, roomVars, histCalls, markCalls, observed, typed>>

\* chatService.sendMessage: tx.chatMessage.create inside prisma.$transaction.
\* The row is the transaction's own until it commits; the create failing, the
\* transaction rolls back and sendMessage throws.
sendTxCreate(call, fails, dt) ==
    /\ call.pc = "txCreate"
    /\ now + dt <= MaxNow
    /\ IF fails
       THEN /\ throwSend(call, "chatMessage.create failed")
            /\ UNCHANGED now
       ELSE /\ now' = now + dt
            /\ sendCalls' = (sendCalls \ {call}) \cup
                   {[call EXCEPT !.pc = "txUpdate", !.msg = newMessage(call, dt)]}
            /\ out' = {}
    /\ UNCHANGED <<sessionVars, roomVars, chatMessages, histCalls, markCalls, observed, typed>>

\* Variant of sendTxUpdate whose commit replaces the rows of the table by the
\* new row.
sendTxUpdateReplaces(call, fails) ==
    /\ call.pc = "txUpdate"
    /\ IF fails
       THEN /\ throwSend(call, "chat.update failed")
            /\ UNCHANGED <<chats, chatMessages>>
       ELSE /\ chatMessages' = <<call.msg>>
            /\ chats' = {IF c.id = call.chatId THEN [c EXCEPT !.updatedAt = now] ELSE c :
                            c \in chats}
            /\ sendCalls' = (sendCalls \ {call}) \cup {[call EXCEPT !.pc = "emit"]}
            /\ out' = {}
    /\ UNCHANGED <<sessionVars, now, eventParticipants, joinCalls, chatParticipants, roomCalls,
                   roomResults, nRoomCalls, histCalls, markCalls, observed, typed>>

\* chatService.sendMessage: tx.chat.update({updatedAt: new Date()}) and the
\* commit of the transaction, which writes the message row and the chat row
\* together; the update failing, the transaction rolls back, the created row
\* is dropped and sendMessage throws.
sendTxUpdate(call, fails) ==
    /\ call.pc = "txUpdate"
    /\ IF fails
       THEN /\ throwSend(call, "chat.update failed")
            /\ UNCHANGED <<chats, chatMessages>>
       ELSE /\ chatMessages' = Append(chatMessages, call.msg)
            /\ chats' = {IF c.id = call.chatId THEN [c EXCEPT !.updatedAt = now] ELSE c :
                            c \in chats}
            /\ sendCalls' = (sendCalls \ {call}) \cup {[call EXCEPT !.pc = "emit"]}
            /\ out' = {}
    /\ UNCHANGED <<sessionVars, now, eventParticipants, joinCalls, chatParticipants, roomCalls,
                   roomResults, nRoomCalls, histCalls, markCalls, observed, typed>>

\* Variant of notificationContent that cuts a content of 50 characters too.
notificationContentFrom50(content) ==
    IF Len(content) >= 50
    THEN SubSeq(content, 1, 50) \o <<".", ".", ".">>
    ELSE content

\* content.length > 50 ? content.substring(0, 50) + '...' : content
notificationContent(content) ==
    IF Len(content) > 50
    THEN SubSeq(content, 1, 50) \o <<".", ".", ".">>
    ELSE content

\* handleSendMessage: the 'newMessage' emitted to the chat room.
emitNewMessage(call) == roomEmit(chatRoom(call.chatId), "newMessage", call.msg)

\* handleSendMessage: the 'messageNotification' emitted to the receiver's user
\* room if connectedUsers has the receiver.
emitNotification(call) ==
    IF connectedUsers[call.receiverId] # None
    THEN roomEmit(userRoom(call.receiverId), "messageNotification",
                  [chatId |-> call.chatId, senderId |-> call.senderId,
                   content |-> notificationContent(call.content)])
    ELSE {}

\* Variant of sendEmit that emits nothing once the sender's socket has
\* disconnected.
sendEmitIfConnected(call) ==
    /\ call.pc = "emit"
    /\ sendCalls' = sendCalls \ {call}
    /\ IF call.via = "ws"
       THEN IF conn[call.client] = "connected"
            THEN /\ out' = emitNewMessage(call) \cup emitNotification(call)
                 /\ observed' = observed \cup
                        {[userId |-> userId[e.to], msg |-> call.msg.id] :
                            e \in emitNewMessage(call)}
            ELSE /\ out' = {}
                 /\ UNCHANGED observed
       ELSE /\ out' = httpReply("sendMessage", call.senderId, TRUE, call.msg)
            /\ UNCHANGED observed
    /\ UNCHANGED <<sessionVars, now, roomVars, chatMessages, histCalls, markCalls, typed>>

\* handleSendMessage after `await this.chatService.sendMessage(...)`: the two
\* emits; ChatController.sendMessage after it: the answer.
sendEmit(call) ==
    /\ call.pc = "emit"
    /\ sendCalls' = sendCalls \ {call}
    /\ IF call.via = "ws"
       THEN /\ out' = emitNewMessage(call) \cup emitNotification(call)
            /\ observed' = observed \cup
                   {[userId |-> userId[e.to], msg |-> call.msg.id] :
                       e \in emitNewMessage(call)}
       ELSE /\ out' = httpReply("sendMessage", call.senderId, TRUE, call.msg)
            /\ UNCHANGED observed
    /\ UNCHANGED <<sessionVars, now, roomVars, chatMessages, histCalls, markCalls, typed>>

\* Variant of notifyUser that emits to the room of the chat.
notifyChat(c, receiver, ev, data) ==
    IF connectedUsers[receiver] # None
    THEN roomEmit(chatRoom(c), ev, data)
    ELSE {}

\* if (this.connectedUsers.get(receiverId))
\*     this.server.to(`user_${receiverId}`).emit(ev, payload)
notifyUser(c, receiver, ev, data) ==
    IF connectedUsers[receiver] # None
    THEN roomEmit(userRoom(receiver), ev, data)
    ELSE {}

\* The sendMessage calls of the client to the receiver that are in flight.
pendingSends(client, receiver) ==
    {k.id : k \in {x \in sendCalls :
                     x.via = "ws" /\ x.client = client /\ x.receiverId = receiver}}

\* The body of handleTyping and of handleStopTyping, which differ in the event
\* they emit.
forwardTyping(client, c, receiver, ev) ==
    /\ conn[client] = "connected"
    /\ IF userId[client] = None
       THEN /\ out' = {}
            /\ UNCHANGED typed
       ELSE /\ out' = notifyUser(c, receiver, ev,
                                 [chatId |-> c, userId |-> userId[client]])
            /\ typed' = IF out' # {}
                        THEN typed \cup pendingSends(client, receiver)
                        ELSE typed
    /\ UNCHANGED <<sessionVars, now, roomVars, chatMessages, sendCalls, histCalls,
                   markCalls, observed>>

\* ChatGateway.handleTyping(client, {chatId, receiverId})
handleTyping(client, c, receiver) == forwardTyping(client, c, receiver, "userTyping")

\* ChatGateway.handleStopTyping(client, {chatId, receiverId})
handleStopTyping(client, c, receiver) ==
    forwardTyping(client, c, receiver, "userStoppedTyping")

\* The user that connects through socket s in the chat specifications.
owner(s) == IF s = "s1" THEN "u1" ELSE IF s = "s2" THEN "u2" ELSE "u3"

\* A socket of the participant u1 or of the outsider u3 connects.
ConnectOutsider == \E s \in {"s1", "s3"} : handleConnection(s, owner(s), owner(s))

\* A socket of the participant u1 or of the participant u2 connects.
ConnectPair == \E s \in {"s1", "s2"} : handleConnection(s, owner(s), owner(s))

JoinChat == \E s \in Sockets, c \in ChatIds : handleJoinChat(s, c)

LeaveChat == \E s \in Sockets, c \in ChatIds : handleLeaveChat(s, c)

\* joinChat and leaveChat for the chat that exists.
JoinChat1 == \E s \in Sockets : handleJoinChat(s, chatId(1))

LeaveChat1 == \E s \in Sockets : handleLeaveChat(s, chatId(1))

SendMessage ==
    \E s \in Sockets, c \in ChatIds, r \in Users, content \in Contents :
        handleSendMessage(s, c, r, content)

HttpSendMessage ==
    \E u \in Users, c \in ChatIds, r \in Users \cup {None}, content \in Contents :
        controllerSendMessage(u, c, r, content)

Typing ==
    \E s \in Sockets, c \in ChatIds, r \in Users : handleTyping(s, c, r)

StopTyping ==
    \E s \in Sockets, c \in ChatIds, r \in Users : handleStopTyping(s, c, r)

SendFindSender == \E call \in sendCalls : sendFindSender(call)

SendFindReceiver == \E call \in sendCalls : sendFindReceiver(call)

SendTxCreate ==
    \E call \in sendCalls, fails \in BOOLEAN, dt \in ClockSteps :
        sendTxCreate(call, fails, dt)

\* The create of a transaction within the millisecond of the last reading of
\* the clock.
SendTxCreateSameMs ==
    \E call \in sendCalls, fails \in BOOLEAN : sendTxCreate(call, fails, 0)

SendTxUpdate == \E call \in sendCalls, fails \in BOOLEAN : sendTxUpdate(call, fails)

SendEmit == \E call \in sendCalls : sendEmit(call)

\* The real-time send path, with a participant and an outsider connected.
NextSend ==
    \/ ConnectOutsider
    \/ Drop
    \/ JoinChat1
    \/ LeaveChat1
    \/ SendMessage
    \/ SendFindSender
    \/ SendFindReceiver
    \/ SendTxCreateSameMs
    \/ SendTxUpdate
    \/ SendEmit

SpecSend == InitChat /\ [][NextSend]_vars

\* where: {chatId: c}
messagesOf(c) == SelectSeq(chatMessages, LAMBDA m : m.chatId = c)

Min(a, b) == IF a < b THEN a ELSE b

Max(a, b) == IF a < b THEN b ELSE a

\* The sequences that hold the elements of s, each once.
Orderings(s) ==
    {[i \in 1..Len(s) |-> s[q[i]]] :
        q \in {f \in [1..Len(s) -> 1..Len(s)] :
                  \A i, j \in 1..Len(s) : f[i] = f[j] => i = j}}

\* orderBy: {createdAt: 'desc'} over where: {chatId: c}. createdAt is the only
\* sort key: rows of the same millisecond come in whatever order the store
\* returns them.
orderByCreatedAtDesc(c) ==
    {s \in Orderings(messagesOf(c)) :
        \A i \in 1..(Len(s) - 1) : s[i].createdAt >= s[i + 1].createdAt}

\* findMany({..., skip, take}) over the ordered rows: take counts from the
\* start of the list, a negative take from its end.
findMany(rows, skip, take) ==
    IF take >= 0
    THEN SubSeq(rows, skip + 1, Min(skip + take, Len(rows)))
    ELSE SubSeq(rows, Max(1, Len(rows) - skip + take + 1), Len(rows) - skip)

\* Variant of updateManyRead with where: {chatId, senderId: u}.
updateManyReadSent(c, u) ==
    [i \in 1..Len(chatMessages) |->
        IF chatMessages[i].chatId = c /\ chatMessages[i].senderId = u
        THEN [chatMessages[i] EXCEPT !.isRead = TRUE]
        ELSE chatMessages[i]]

\* chatMessage.updateMany({where: {chatId, receiverId, isRead: false},
\* data: {isRead: true}})
updateManyRead(c, u) ==
    [i \in 1..Len(chatMessages) |->
        IF chatMessages[i].chatId = c /\ chatMessages[i].receiverId = u
        THEN [chatMessages[i] EXCEPT !.isRead = TRUE]
        ELSE chatMessages[i]]

\* The messages of chat c that a socket of user u has been sent as newMessage.
observedBy(u, c) ==
    {i \in 1..Len(chatMessages) :
        /\ chatMessages[i].chatId = c
        /\ [userId |-> u, msg |-> chatMessages[i].id] \in observed}

\* ChatController.getChatMessages(chatId, userId, page, limit) up to the first
\* query of chatService.getChatMessages; one request is in flight at a time.
controllerGetChatMessages(u, c, page, limit) ==
    /\ histCalls = {}
    /\ histCalls' = histCalls \cup
           {[userId |-> u, chatId |-> c, page |-> page,
             limit |-> limit, pc |-> "findParticipant", messages |-> <<>>,
             seen |-> {chatMessages[i].id : i \in observedBy(u, c)}]}
    /\ out' = {}
    /\ UNCHANGED <<sessionVars, now, roomVars, chatMessages, sendCalls, markCalls, observed, typed>>

\* getChatMessages throws: the controller logs the error and answers
\* BadRequestException(error.message).
throwHist(call, message) ==
    /\ histCalls' = histCalls \ {call}
    /\ out' = logError(message) \cup
              httpReply("getChatMessages", call.userId, FALSE, message)

\* Variant of histFindParticipant without the check of the participant.
histFindParticipantUnchecked(call) ==
    /\ call.pc = "findParticipant"
    /\ histCalls' = (histCalls \ {call}) \cup {[call EXCEPT !.pc = "findMany"]}
    /\ out' = {}
    /\ UNCHANGED <<sessionVars, now, roomVars, chatMessages, sendCalls, markCalls, observed, typed>>

\* chatService.getChatMessages: chatParticipant.findFirst and its check.
histFindParticipant(call) ==
    /\ call.pc = "findParticipant"
    /\ IF ~isActiveParticipant(call.chatId, call.userId)
       THEN throwHist(call, "User not authorized for this chat")
       ELSE /\ histCalls' = (histCalls \ {call}) \cup {[call EXCEPT !.pc = "findMany"]}
            /\ out' = {}
    /\ UNCHANGED <<sessionVars, now, roomVars, chatMessages, sendCalls, markCalls, observed, typed>>

\* chatService.getChatMessages: chatMessage.findMany, which rejects a negative
\* skip.
histFindMany(call) ==
    /\ call.pc = "findMany"
    /\ LET skip == (call.page - 1) * call.limit IN
       IF skip < 0
       THEN throwHist(call, "Invalid value for skip argument")
       ELSE /\ \E rows \in orderByCreatedAtDesc(call.chatId) :
                   histCalls' = (histCalls \ {call}) \cup
                       {[call EXCEPT !.pc = "updateMany",
                                     !.messages = findMany(rows, skip, call.limit)]}
            /\ out' = {}
    /\ UNCHANGED <<sessionVars, now, roomVars, chatMessages, sendCalls, markCalls, observed, typed>>

\* What getChatMessages returns.
historyResult(call) ==
    [op |-> "getChatMessages", userId |-> call.userId, chatId |-> call.chatId,
     page |-> call.page, limit |-> call.limit, seen |-> call.seen,
     messages |-> Reverse(call.messages),
     hasMore |-> (Len(call.messages) = call.limit)]

\* chatService.getChatMessages: chatMessage.updateMany, then the return.
histUpdateMany(call) ==
    /\ call.pc = "updateMany"
    /\ chatMessages' = updateManyRead(call.chatId, call.userId)
    /\ histCalls' = histCalls \ {call}
    /\ out' = httpReply("getChatMessages", call.userId, TRUE, historyResult(call))
    /\ UNCHANGED <<sessionVars, now, roomVars, sendCalls, markCalls, observed, typed>>

GetChatMessages ==
    \E u \in Users, c \in ChatIds, page \in Pages, limit \in Limits :
        controllerGetChatMessages(u, c, page, limit)

HistFindParticipant == \E call \in histCalls : histFindParticipant(call)

HistFindMany == \E call \in histCalls : histFindMany(call)

HistUpdateMany == \E call \in histCalls : histUpdateMany(call)

\* u1 sends to u2 over socket s1.
SendToPeer == \E content \in Contents : handleSendMessage("s1", chatId(1), "u2", content)

\* The receiver u2 asks for the history of the chat.
GetChatMessagesPeer ==
    \E page \in Pages, limit \in Limits :
        controllerGetChatMessages("u2", chatId(1), page, limit)

\* Real-time sends from u1 to u2 and history requests of u2.
NextHistory ==
    \/ ConnectPair
    \/ JoinChat1
    \/ SendToPeer
    \/ SendFindSender
    \/ SendFindReceiver
    \/ SendTxCreateSameMs
    \/ SendTxUpdate
    \/ SendEmit
    \/ GetChatMessagesPeer
    \/ HistFindParticipant
    \/ HistFindMany
    \/ HistUpdateMany

SpecHistory == InitChat /\ [][NextHistory]_vars

(***************************************************************************)
(* Read receipts: ChatGateway.handleMarkAsRead, ChatController.markAsRead  *)
(* and ChatService.markMessageAsRead                                       *)
(***************************************************************************)

\* The messageId of a request: an id of the table, or of no row.
MessageIds == {messageId(n) : n \in 1..MaxSends} \cup {"m9"}

\* A markMessageAsRead call: via "ws" from socket client, via "http" from a
\* request of the user the JwtGuard names.
markCall(via, client, u, m) ==
    [via |-> via, client |-> client, userId |-> u, messageId |-> m,
     pc |-> "findUnique"]

\* ChatGateway.handleMarkAsRead(client, {messageId}) up to the query of
\* markMessageAsRead; one request is in flight at a time.
handleMarkAsRead(client, m) ==
    /\ conn[client] = "connected"
    /\ markCalls = {}
    /\ IF userId[client] = None
       THEN /\ out' = clientEmit(client, "error", "Not authenticated")
            /\ UNCHANGED markCalls
       ELSE /\ markCalls' = markCalls \cup {markCall("ws", client, userId[client], m)}
            /\ out' = {}
    /\ UNCHANGED <<sessionVars, now, roomVars, chatMessages, sendCalls, histCalls,
                   observed, typed>>

\* ChatController.markAsRead(messageId, userId) up to the query of
\* markMessageAsRead.
controllerMarkAsRead(u, m) ==
    /\ markCalls = {}
    /\ markCalls' = markCalls \cup {markCall("http", None, u, m)}
    /\ out' = {}
    /\ UNCHANGED <<sessionVars, now, roomVars, chatMessages, sendCalls, histCalls,
                   observed, typed>>

\* markMessageAsRead throws: the catch block logs the error; the gateway
\* emits 'error' to the client, the controller answers
\* BadRequestException(error.message).
throwMark(call, message) ==
    /\ markCalls' = markCalls \ {call}
    /\ out' = logError(message) \cup
              IF call.via = "ws"
              THEN clientEmit(call.client, "error", "Failed to mark message as read")
              ELSE httpReply("markAsRead", call.userId, FALSE, message)

\* where: {id: m}
findUnique(m) == {i \in 1..Len(chatMessages) : chatMessages[i].id = m}

\* Variant of markFindUnique without the check of the receiver.
markFindUniqueUnchecked(call) ==
    /\ call.pc = "findUnique"
    /\ IF findUnique(call.messageId) = {}
       THEN throwMark(call, "Message not found")
       ELSE /\ markCalls' = (markCalls \ {call}) \cup {[call EXCEPT !.pc = "update"]}
            /\ out' = {}
    /\ UNCHANGED <<sessionVars, now, roomVars, chatMessages, sendCalls, histCalls,
                   observed, typed>>

\* markMessageAsRead: chatMessage.findUnique and the checks of its result.
markFindUnique(call) ==
    /\ call.pc = "findUnique"
    /\ IF findUnique(call.messageId) = {}
       THEN throwMark(call, "Message not found")
       ELSE IF \E i \in findUnique(call.messageId) :
                  chatMessages[i].receiverId # call.userId
            THEN throwMark(call, "Not authorized to mark this message as read")
            ELSE /\ markCalls' = (markCalls \ {call}) \cup
                        {[call EXCEPT !.pc = "update"]}
                 /\ out' = {}
    /\ UNCHANGED <<sessionVars, now, roomVars, chatMessages, sendCalls, histCalls,
                   observed, typed>>

\* Variant of updateRead that writes the negation of the flag.
updateReadToggles(m) ==
    [i \in 1..Len(chatMessages) |->
        IF chatMessages[i].id = m
        THEN [chatMessages[i] EXCEPT !.isRead = ~@]
        ELSE chatMessages[i]]

\* chatMessage.update({where: {id: m}, data: {isRead: true}})
updateRead(m) ==
    [i \in 1..Len(chatMessages) |->
        IF chatMessages[i].id = m
        THEN [chatMessages[i] EXCEPT !.isRead = TRUE]
        ELSE chatMessages[i]]

\* markMessageAsRead: chatMessage.update, then the return: the gateway emits
\* 'messageRead' to the client, the controller answers with the row.
markUpdate(call) ==
    /\ call.pc = "update"
    /\ chatMessages' = updateRead(call.messageId)
    /\ markCalls' = markCalls \ {call}
    /\ out' = IF call.via = "ws"
              THEN clientEmit(call.client, "messageRead", call.messageId)
              ELSE httpReply("markAsRead", call.userId, TRUE, call.messageId)
    /\ UNCHANGED <<sessionVars, now, roomVars, sendCalls, histCalls, observed, typed>>

MarkAsRead == \E s \in Sockets, m \in MessageIds : handleMarkAsRead(s, m)

HttpMarkAsRead == \E u \in Users, m \in MessageIds : controllerMarkAsRead(u, m)

\* The outsider u3 asks the controller to mark a message.
HttpMarkOutsider == \E m \in MessageIds : controllerMarkAsRead("u3", m)

MarkFindUnique == \E call \in markCalls : markFindUnique(call)

MarkUpdate == \E call \in markCalls : markUpdate(call)

\* u1 sends to u2 through the controller.
HttpSendToPeer ==
    \E content \in Contents : controllerSendMessage("u1", chatId(1), "u2", content)

\* The receiver u2 asks for a page of the chat with any limit.
GetChatMessagesPaged ==
    \E page \in Pages, limit \in PageLimits :
        controllerGetChatMessages("u2", chatId(1), page, limit)

\* Sends of u1 to u2 through the controller and history requests of u2, the
\* clock running.
NextPage ==
    \/ HttpSendToPeer
    \/ SendFindSender
    \/ SendFindReceiver
    \/ SendTxCreate
    \/ SendTxUpdate
    \/ SendEmit
    \/ GetChatMessagesPaged
    \/ HistFindParticipant
    \/ HistFindMany
    \/ HistUpdateMany

SpecPage == InitChat /\ [][NextPage]_vars

\* u1 sends any body to u2 over socket s1, or through the controller.
SendBody == \E body \in Bodies : handleSendMessage("s1", chatId(1), "u2", body)

HttpSendBody ==
    \E body \in Bodies : controllerSendMessage("u1", chatId(1), "u2", body)

\* The sender u1 connects through s1.
ConnectSender == handleConnection("s1", "u1", "u1")

\* Both entry points of sendMessage, the sender's socket subscribed to the
\* chat.
NextEntry ==
    \/ ConnectSender
    \/ JoinChat1
    \/ SendBody
    \/ HttpSendBody
    \/ SendFindSender
    \/ SendFindReceiver
    \/ SendTxCreate
    \/ SendTxUpdate
    \/ SendEmit

SpecEntry == InitChat /\ [][NextEntry]_vars

\* Sends of u1 to u2, history requests of u2 and markAsRead of any message by
\* the sender, the receiver and an outsider.
NextRead ==
    \/ ConnectPair
    \/ SendToPeer
    \/ SendFindSender
    \/ SendFindReceiver
    \/ SendTxCreateSameMs
    \/ SendTxUpdate
    \/ SendEmit
    \/ GetChatMessagesPeer
    \/ HistFindParticipant
    \/ HistFindMany
    \/ HistUpdateMany
    \/ MarkAsRead
    \/ HttpMarkOutsider
    \/ MarkFindUnique
    \/ MarkUpdate

SpecRead == InitChat /\ [][NextRead]_vars

\* u1 signals over s1 that it types, or has stopped typing, to u2.
TypingToPeer == handleTyping("s1", chatId(1), "u2")

StopTypingToPeer == handleStopTyping("s1", chatId(1), "u2")

\* Sends and typing signals of u1 to u2 over the same socket.
NextTyping ==
    \/ ConnectPair
    \/ JoinChat1
    \/ SendToPeer
    \/ SendFindSender
    \/ SendFindReceiver
    \/ SendTxCreateSameMs
    \/ SendTxUpdate
    \/ SendEmit
    \/ TypingToPeer
    \/ StopTypingToPeer

SpecTyping == InitChat /\ [][NextTyping]_vars

\* The receiver u2 connects through s2 or through s3.
ConnectReceiver == \E s \in {"s2", "s3"} : handleConnection(s, "u2", "u2")

\* Sends of u1 to u2, who connects with up to two sockets.
NextNotify ==
    \/ ConnectSender
    \/ ConnectReceiver
    \/ Drop
    \/ SendToPeer
    \/ SendFindSender
    \/ SendFindReceiver
    \/ SendTxCreateSameMs
    \/ SendTxUpdate
    \/ SendEmit

SpecNotify == InitChat /\ [][NextNotify]_vars

\* A participant sends to u3, who is no participant of the chat.
SendToOutsider ==
    \E s \in {"s1", "s2"}, content \in Contents :
        handleSendMessage(s, chatId(1), "u3", content)

\* The operations of a socket that can fail: sends the store or the
\* authorization rejects, markAsRead of any message by the sender and the
\* receiver.
NextError ==
    \/ ConnectPair
    \/ JoinChat1
    \/ SendToPeer
    \/ SendToOutsider
    \/ SendFindSender
    \/ SendFindReceiver
    \/ SendTxCreateSameMs
    \/ SendTxUpdate
    \/ SendEmit
    \/ MarkAsRead
    \/ MarkFindUnique
    \/ MarkUpdate

SpecError == InitChat /\ [][NextError]_vars

\* The steps of the sendMessage call with the given id, the store not failing.
runSend(id) ==
    \E call \in sendCalls :
        /\ call.id = id
        /\ \/ sendFindSender(call)
           \/ sendFindReceiver(call)
           \/ sendTxCreate(call, FALSE, 0)
           \/ sendTxUpdate(call, FALSE)
           \/ sendEmit(call)

RunSend == \E id \in CallIds : runSend(id)

\* Sends of u1 to u2 while sockets connect and disconnect, the store not
\* failing.
NextLive ==
    \/ ConnectPair
    \/ JoinChat1
    \/ Drop
    \/ SendToPeer
    \/ RunSend

\* The event loop runs the continuation of every await that has resolved.
SpecLive ==
    InitChat /\ [][NextLive]_vars /\ \A id \in CallIds : WF_vars(runSend(id))

\* The receiver u2 asks the controller to mark a message; u2's client issues
\* its requests one at a time.
HttpMarkPeer ==
    /\ histCalls = {}
    /\ \E m \in MessageIds : controllerMarkAsRead("u2", m)

\* The receiver u2 asks for a page of the chat, one request at a time.
GetChatMessagesAlone == markCalls = {} /\ GetChatMessagesPeer

\* Every operation on the chat, of the sender's socket and of the receiver's
\* requests.
NextStore ==
    \/ ConnectSender
    \/ Drop
    \/ JoinChat1
    \/ LeaveChat1
    \/ SendToPeer
    \/ SendFindSender
    \/ SendFindReceiver
    \/ SendTxCreateSameMs
    \/ SendTxUpdate
    \/ SendEmit
    \/ GetChatMessagesAlone
    \/ HistFindParticipant
    \/ HistFindMany
    \/ HistUpdateMany
    \/ HttpMarkPeer
    \/ MarkFindUnique
    \/ MarkUpdate
    \/ TypingToPeer
    \/ StopTypingToPeer

SpecStore == InitChat /\ [][NextStore]_vars

\* The outsider u3, no participant of the chat, asks for a page of it.
GetChatMessagesOutsider ==
    \E page \in Pages, limit \in Limits :
        controllerGetChatMessages("u3", chatId(1), page, limit)

\* Sends of u1 to u2 and history requests of the receiver and of an outsider.
NextAccess ==
    \/ HttpSendToPeer
    \/ SendFindSender
    \/ SendFindReceiver
    \/ SendTxCreateSameMs
    \/ SendTxUpdate
    \/ SendEmit
    \/ GetChatMessagesPeer
    \/ GetChatMessagesOutsider
    \/ HistFindParticipant
    \/ HistFindMany
    \/ HistUpdateMany

SpecAccess == InitChat /\ [][NextAccess]_vars

\* A content of n UTF-16 code units: "a" at the first 50 places, "b" after.
Text(n) == [i \in 1..n |-> IF i <= 50 THEN "a" ELSE "b"]

\* Contents around the length at which the notification is cut.
LongContents == Contents \cup {Text(50), Text(51)}

\* u1 sends a content of any of these lengths to u2 over socket s1.
SendLong == \E content \in LongContents : handleSendMessage("s1", chatId(1), "u2", content)

\* Sends of short and long contents from u1 to u2, both connected.
NextNotice ==
    \/ ConnectPair
    \/ JoinChat1
    \/ SendLong
    \/ SendFindSender
    \/ SendFindReceiver
    \/ SendTxCreateSameMs
    \/ SendTxUpdate
    \/ SendEmit

SpecNotice == InitChat /\ [][NextNotice]_vars

\* The sender u1 or the receiver u2 asks for the first page of the chat.
GetChatMessagesEither ==
    \E u \in {"u1", "u2"} : controllerGetChatMessages(u, chatId(1), 1, 2)

\* The sender u1 or the receiver u2 asks the controller to mark a message.
HttpMarkEither ==
    \E u \in {"u1", "u2"}, m \in MessageIds : controllerMarkAsRead(u, m)

\* Sends of u1 to u2 through the controller, history and markAsRead requests
\* of both.
NextOwn ==
    \/ HttpSendToPeer
    \/ SendFindSender
    \/ SendFindReceiver
    \/ SendTxCreateSameMs
    \/ SendTxUpdate
    \/ SendEmit
    \/ GetChatMessagesEither
    \/ HistFindParticipant
    \/ HistFindMany
    \/ HistUpdateMany
    \/ HttpMarkEither
    \/ MarkFindUnique
    \/ MarkUpdate

SpecOwn == InitChat /\ [][NextOwn]_vars

\* chatParticipant.findMany({where: {userId: u, isActive: true}}): the chats
\* of the rows.
chatsOfUser(u) == {c \in chats : isActiveParticipant(c.id, u)}

\* orderBy: {chat: {updatedAt: 'desc'}}: chats of the same updatedAt come in
\* whatever order the store returns them.
orderByUpdatedAtDesc(cs) ==
    {f \in [1..Cardinality(cs) -> cs] :
        /\ \A i, j \in 1..Cardinality(cs) : f[i] = f[j] => i = j
        /\ \A i \in 1..(Cardinality(cs) - 1) : f[i].updatedAt >= f[i + 1].updatedAt}

\* messages: {orderBy: {createdAt: 'desc'}, take: 1}: the array cp.chat.messages,
\* of one row or none.
lastMessages(c) == {findMany(rows, 0, 1) : rows \in orderByCreatedAtDesc(c)}

\* Variant of unreadCount whose filter leaves out isRead.
unreadCountTotal(c, u) ==
    Cardinality({i \in 1..Len(chatMessages) :
                    /\ chatMessages[i].chatId = c
                    /\ chatMessages[i].receiverId = u})

\* _count: {select: {messages: {where: {receiverId: u, isRead: false}}}}
unreadCount(c, u) ==
    Cardinality({i \in 1..Len(chatMessages) :
                    /\ chatMessages[i].chatId = c
                    /\ chatMessages[i].receiverId = u
                    /\ ~chatMessages[i].isRead})

\* What chatService.getChatList(u) can return: one entry per chat of the
\* user; lastMessage is kept as the array messages, `messages[0] || null`
\* being its first row or nothing.
getChatList(u) ==
    {[k \in 1..Cardinality(chatsOfUser(u)) |->
         [chatId |-> ord[k].id,
          event |-> ord[k].eventId,
          participants |-> membersOf(ord[k].id) \ {u},
          lastMessage |-> last[ord[k]],
          unreadCount |-> unreadCount(ord[k].id, u)]] :
        ord \in orderByUpdatedAtDesc(chatsOfUser(u)),
        last \in {g \in [chatsOfUser(u) -> UNION {lastMessages(c.id) : c \in chats}] :
                     \A c \in chatsOfUser(u) : g[c] \in lastMessages(c.id)}}

\* ChatController.getChatList(userId): the one query of the service and the
\* answer.
controllerGetChatList(u) ==
    /\ \E list \in getChatList(u) : out' = httpReply("getChatList", u, TRUE, list)
    /\ UNCHANGED <<sessionVars, now, roomVars, msgVars>>

GetChatList == \E u \in Users : controllerGetChatList(u)

\* The sender u1 or the receiver u2 asks for the list of chats.
GetChatListEither == \E u \in {"u1", "u2"} : controllerGetChatList(u)

\* Sends of u1 to u2 through the controller, history requests of u2 and
\* listings of both.
NextList ==
    \/ HttpSendToPeer
    \/ SendFindSender
    \/ SendFindReceiver
    \/ SendTxCreateSameMs
    \/ SendTxUpdate
    \/ SendEmit
    \/ GetChatMessagesPeer
    \/ HistFindParticipant
    \/ HistFindMany
    \/ HistUpdateMany
    \/ GetChatListEither

SpecList == InitChat /\ [][NextList]_vars

\* events.maxParticipants: 2 for e1, NULL for e2 (0 here: `event.maxParticipants
\* && ...` treats both alike).
maxParticipants(e) == IF e = "e1" THEN 2 ELSE 0

\* events.isActive: e2 has been deactivated.
eventIsActive(e) == e = "e1"

\* event._count.participants
countParticipants(e) == Cardinality({ep \in eventParticipants : ep.eventId = e})

\* The ids of the joinEvent calls in flight together: at most two are.
JoinIds == {1, 2}

\* A joinEvent call id not in use.
freeJoinId == CHOOSE i \in JoinIds \ {k.id : k \in joinCalls} : TRUE

\* EventController.joinEvent(userId, eventId) up to the first query of
\* eventService.joinEvent.
controllerJoinEvent(u, e) ==
    /\ {k.id : k \in joinCalls} # JoinIds
    /\ joinCalls' = joinCalls \cup
           {[id |-> freeJoinId, userId |-> u, eventId |-> e, pc |-> "findEvent"]}
    /\ out' = {}
    /\ UNCHANGED <<sessionVars, now, eventParticipants, chats, chatParticipants,
                   roomCalls, roomResults, nRoomCalls, msgVars>>

\* joinEvent throws: the controller has no catch block, the request is
\* answered with the error.
throwJoin(call, message) ==
    /\ joinCalls' = joinCalls \ {call}
    /\ out' = httpReply("joinEvent", call.userId, FALSE, message)
    /\ UNCHANGED eventParticipants

\* joinEvent goes on to its next query.
stepJoin(call, pc) ==
    /\ joinCalls' = (joinCalls \ {call}) \cup {[call EXCEPT !.pc = pc]}
    /\ out' = {}
    /\ UNCHANGED eventParticipants

\* joinEvent: event.findFirst({where: {id, isActive: true}}) with the count of
\* its participants, and the two checks of the result.
joinFindEvent(call) ==
    /\ call.pc = "findEvent"
    /\ IF call.eventId \notin Events \/ ~eventIsActive(call.eventId)
       THEN throwJoin(call, "Event not found or inactive")
       ELSE IF /\ maxParticipants(call.eventId) # 0
               /\ countParticipants(call.eventId) >= maxParticipants(call.eventId)
            THEN throwJoin(call, "Event has reached maximum participants")
            ELSE stepJoin(call, "findUnique")
    /\ UNCHANGED <<sessionVars, now, chats, chatParticipants, roomCalls, roomResults,
                   nRoomCalls, msgVars>>

\* joinEvent: eventParticipant.findUnique({userId_eventId}) and its check.
joinFindUnique(call) ==
    /\ call.pc = "findUnique"
    /\ IF [eventId |-> call.eventId, userId |-> call.userId] \in eventParticipants
       THEN throwJoin(call, "User is already registered for this event")
       ELSE stepJoin(call, "create")
    /\ UNCHANGED <<sessionVars, now, chats, chatParticipants, roomCalls, roomResults,
                   nRoomCalls, msgVars>>

\* joinEvent: eventParticipant.create; the unique index (userId, eventId)
\* rejects a second row of the user, which .catch turns into 'Failed to join
\* event'.
joinCreate(call) ==
    /\ call.pc = "create"
    /\ LET row == [eventId |-> call.eventId, userId |-> call.userId] IN
       IF row \in eventParticipants
       THEN /\ joinCalls' = joinCalls \ {call}
            /\ out' = logError("Unique constraint failed") \cup
                      httpReply("joinEvent", call.userId, FALSE, "Failed to join event")
            /\ UNCHANGED eventParticipants
       ELSE /\ eventParticipants' = eventParticipants \cup {row}
            /\ joinCalls' = joinCalls \ {call}
            /\ out' = httpReply("joinEvent", call.userId, TRUE, row)
    /\ UNCHANGED <<sessionVars, now, chats, chatParticipants, roomCalls, roomResults,
                   nRoomCalls, msgVars>>

JoinEvent == \E u \in Users, e \in EventIds : controllerJoinEvent(u, e)

JoinFindEvent == \E call \in joinCalls : joinFindEvent(call)

JoinFindUnique == \E call \in joinCalls : joinFindUnique(call)

JoinCreate == \E call \in joinCalls : joinCreate(call)

\* joinEvent requests of every user for every event.
NextJoin ==
    \/ JoinEvent
    \/ JoinFindEvent
    \/ JoinFindUnique
    \/ JoinCreate

SpecJoin == Init /\ [][NextJoin]_vars

\* Every operation, with every input.
Next ==
    \/ Connect
    \/ Drop
    \/ CreateOrGetChat
    \/ RoomFindEvent
    \/ RoomFindParticipant
    \/ RoomFindChat
    \/ RoomCreate
    \/ JoinChat
    \/ LeaveChat
    \/ SendMessage
    \/ HttpSendMessage
    \/ SendFindSender
    \/ SendFindReceiver
    \/ SendTxCreate
    \/ SendTxUpdate
    \/ SendEmit
    \/ GetChatMessages
    \/ HistFindParticipant
    \/ HistFindMany
    \/ HistUpdateMany
    \/ MarkAsRead
    \/ HttpMarkAsRead
    \/ MarkFindUnique
    \/ MarkUpdate
    \/ Typing
    \/ StopTyping
    \/ GetChatList
    \/ JoinEvent
    \/ JoinFindEvent
    \/ JoinFindUnique
    \/ JoinCreate

Spec == Init /\ [][Next]_vars

(***************************************************************************)
(* Rooms                                                                   *)
(***************************************************************************)

\* u is the host of event e or one of its participants.
Authorized(e, u) ==
    creatorId(e) = u \/ [eventId |-> e, userId |-> u] \in eventParticipants

\* C3: for an event and a pair of users at most one chat exists, and all
\* getOrCreateChat calls for them return the same chat id.
C3_OneRoomPerPair ==
    /\ \A c1 \in chats, c2 \in chats :
           (c1.eventId = c2.eventId /\ membersOf(c1.id) = membersOf(c2.id))
               => c1.id = c2.id
    /\ \A r1 \in roomResults, r2 \in roomResults :
           (r1.eventId = r2.eventId /\ r1.users = r2.users)
               => r1.chatId = r2.chatId

\* C4: getOrCreateChat returns a chat, and a chat exists, only for two users
\* each of whom is the host or a participant of the event.
C4_BothUsersAuthorized ==
    /\ \A r \in roomResults : \A u \in r.users : Authorized(r.eventId, u)
    /\ \A c \in chats : \A u \in membersOf(c.id) : Authorized(c.eventId, u)

(***************************************************************************)
(* Sending and history                                                     *)
(***************************************************************************)

MessageEvents == {"newMessage", "messageNotification"}

\* What the last step sent to sockets and requests (the error log apart).
Emitted == {e \in out : e.to # "log"}

\* The chat_messages row with id m exists.
Stored(m) == \E i \in 1..Len(chatMessages) : chatMessages[i].id = m

\* The answers to getChatMessages among the events just emitted.
HistoryReplies == {e \in out : e.to = "http" /\ e.ev = "getChatMessages" /\ e.ok}

\* C1: a newMessage or messageNotification is emitted only for a message whose
\* row is in the store; and a history of the receiver that began after one of
\* its sockets was sent newMessage for m, and whose first page is not full,
\* contains m.
C1_EventAfterCommit ==
    /\ \A e \in out :
           /\ e.ev = "newMessage" => Stored(e.data.id)
           /\ e.ev = "messageNotification" =>
                  \E i \in 1..Len(chatMessages) :
                      /\ chatMessages[i].chatId = e.data.chatId
                      /\ chatMessages[i].senderId = e.data.senderId
                      /\ notificationContent(chatMessages[i].content) = e.data.content
    /\ \A u \in Users, m \in {x.msg : x \in observed} :
           [userId |-> u, msg |-> m] \in observed => Stored(m)
    /\ \A e \in HistoryReplies :
           (e.data.page = 1 /\ ~e.data.hasMore) =>
               \A m \in e.data.seen :
                   \E k \in 1..Len(e.data.messages) : e.data.messages[k].id = m

\* C1 witness: the receiver's history, begun after it was sent newMessage for
\* a message, has returned that message.
C1_Witness ==
    \E e \in HistoryReplies :
        /\ e.data.page = 1
        /\ ~e.data.hasMore
        /\ e.data.seen # {}

\* The place of message m in the store, in the order of the appends.
appendIndex(m) == CHOOSE i \in 1..Len(chatMessages) : chatMessages[i].id = m

\* m1 was appended before m2: its row was committed first, and its creation
\* timestamp is not the later one.
AppendedBefore(m1, m2) ==
    /\ appendIndex(m1) < appendIndex(m2)
    /\ chatMessages[appendIndex(m1)].createdAt <= chatMessages[appendIndex(m2)].createdAt

\* C11: a page of history that holds two messages holds them in the order of
\* their appends: it never shows m2 before m1 when m1 was appended before m2.
C11_HistoryOrderIsAppendOrder ==
    \A e \in HistoryReplies :
        \A k, l \in 1..Len(e.data.messages) :
            k < l => ~AppendedBefore(e.data.messages[l].id, e.data.messages[k].id)

\* C12: a socket is sent the newMessage events of a chat in the order of the
\* appends: when it is sent newMessage for m, its user has been sent no
\* message that was appended after m.
C12_BroadcastInAppendOrder ==
    [][\A e \in out' :
          e.ev = "newMessage" =>
              \A x \in observed :
                  (x.userId = userId[e.to] /\ x.msg # e.data.id)
                      => appendIndex(x.msg) < appendIndex(e.data.id)]_vars

\* C13: the step that ends a sendMessage call whose message is in the store,
\* from the gateway or from the controller, emits newMessage for it to every
\* socket then in the room of its chat.
C13_EveryAppendIsBroadcast ==
    [][\A call \in sendCalls :
          (call.pc = "emit" /\ call \notin sendCalls')
              => roomEmit(chatRoom(call.chatId), "newMessage", call.msg) \subseteq out']_vars

\* C18: no message of the store and no newMessage has an empty content.
C18_NoEmptyContent ==
    /\ \A i \in 1..Len(chatMessages) : chatMessages[i].content # <<>>
    /\ \A e \in out : e.ev = "newMessage" => e.data.content # <<>>

\* C16: after a getChatMessages call has returned, every message of its page
\* whose receiver is the caller is read in the store.
C16_ReturnedMessagesRead ==
    \A e \in HistoryReplies :
        \A k \in 1..Len(e.data.messages) :
            e.data.messages[k].receiverId = e.data.userId
                => chatMessages[appendIndex(e.data.messages[k].id)].isRead

\* C16 witness: a page returned to the receiver holds a message that was
\* unread when the page was read and is read in the store now.
C16_Witness ==
    \E e \in HistoryReplies :
        \E k \in 1..Len(e.data.messages) :
            /\ e.data.messages[k].receiverId = e.data.userId
            /\ ~e.data.messages[k].isRead
            /\ chatMessages[appendIndex(e.data.messages[k].id)].isRead

\* C17: a message of a page returned to its receiver carries isRead = TRUE.
C17_HistoryShowsReadReceipt ==
    \A e \in HistoryReplies :
        \A k \in 1..Len(e.data.messages) :
            e.data.messages[k].receiverId = e.data.userId
                => e.data.messages[k].isRead

\* C20: a page holds at most limit messages (none for a limit below one), and
\* hasMore is true exactly when it holds limit messages.
C20_PageBoundedByLimit ==
    \A e \in HistoryReplies :
        /\ Len(e.data.messages) <= Max(e.data.limit, 0)
        /\ e.data.hasMore <=> (Len(e.data.messages) = e.data.limit)

\* The call is inside prisma.$transaction.
InTx(call) == call.pc \in {"txCreate", "txUpdate"}

\* The step ends the sendMessage call.
EndsSend(call) == \A k \in sendCalls' : k.id # call.id

\* C19: the row a transaction created is not in the store before the commit;
\* the step that appends a message stamps its chat with the clock of that
\* step, and a chat is stamped only by such a step; a step in which a call
\* fails inside the transaction leaves messages and chats as they were, sends
\* no newMessage or messageNotification, and sends the error to its caller.
C19_AppendIsAtomic ==
    /\ [](\A call \in sendCalls : InTx(call) => ~Stored(call.msg.id))
    /\ [][/\ Len(chatMessages') # Len(chatMessages) =>
              /\ Len(chatMessages') = Len(chatMessages) + 1
              /\ SubSeq(chatMessages', 1, Len(chatMessages)) = chatMessages
              /\ \A c \in chats' :
                     c.id = chatMessages'[Len(chatMessages')].chatId =>
                         /\ c.updatedAt = now'
                         /\ c.updatedAt >= chatMessages'[Len(chatMessages')].createdAt
          /\ chats' # chats => Len(chatMessages') = Len(chatMessages) + 1
          /\ \A call \in sendCalls :
                 (InTx(call) /\ EndsSend(call)) =>
                     /\ chatMessages' = chatMessages
                     /\ chats' = chats
                     /\ \A e \in out' : e.ev \notin MessageEvents
                     /\ IF call.via = "ws"
                        THEN Emitted' = {[to |-> call.client, ev |-> "error",
                                          data |-> "Failed to send message"]}
                        ELSE \E e \in Emitted' :
                                 e.to = "http" /\ e.userId = call.senderId /\ ~e.ok]_vars

\* C19 witness: the chat.update of a transaction has just failed, after its
\* create had succeeded, with a socket subscribed to the chat: the store has
\* no message and the client was sent the error.
C19_Witness ==
    /\ \E e \in out : e.to = "log" /\ e.data = "chat.update failed"
    /\ \E e \in Emitted : e.ev = "error" /\ e.to \in inRoom(chatRoom(chatId(1)))
    /\ chatMessages = <<>>
    /\ sendCalls = {}

(***************************************************************************)
(* Read receipts                                                           *)
(***************************************************************************)

\* C14: a message that is read stays in its place in the store, and read, in
\* every step.
C14_ReadFlagMonotonic ==
    [][\A i \in 1..Len(chatMessages) :
          chatMessages[i].isRead =>
              /\ i <= Len(chatMessages')
              /\ chatMessages'[i].id = chatMessages[i].id
              /\ chatMessages'[i].isRead]_vars

\* C14 witness: markAsRead has just succeeded for a read message that a later,
\* unread message follows in the store.
C14_Witness ==
    \E i, j \in 1..Len(chatMessages) :
        /\ i < j
        /\ chatMessages[i].isRead
        /\ ~chatMessages[j].isRead
        /\ \E e \in Emitted : e.ev = "messageRead" /\ e.data = chatMessages[i].id

\* The step ends the markMessageAsRead call.
EndsMark(call) == \A k \in markCalls' : [k EXCEPT !.pc = call.pc] # call

\* The caller of the call is the receiver of its message.
ByReceiver(call) ==
    \E i \in 1..Len(chatMessages) :
        /\ chatMessages[i].id = call.messageId
        /\ chatMessages[i].receiverId = call.userId

Unauthorized(call) ==
    \/ ~isActiveParticipant(call.chatId, call.senderId)
    \/ ~isActiveParticipant(call.chatId, call.receiverId)

\* C2: a sendMessage whose sender or receiver is no active participant of the
\* chat never reaches the transaction; no step of it changes a message or a
\* chat row or emits newMessage or messageNotification, and it ends with an
\* 'error' to its client alone.
C2_UnauthorizedSendRejected ==
    /\ [](\A call \in sendCalls :
            call.pc \in {"txCreate", "txUpdate", "emit"} => ~Unauthorized(call))
    /\ [](\A i \in 1..Len(chatMessages) :
            /\ isActiveParticipant(chatMessages[i].chatId, chatMessages[i].senderId)
            /\ isActiveParticipant(chatMessages[i].chatId, chatMessages[i].receiverId))
    /\ [][\A call \in sendCalls :
            (Unauthorized(call) /\ call \notin sendCalls') =>
                /\ chatMessages' = chatMessages
                /\ chats' = chats
                /\ \A e \in out' : e.ev \notin MessageEvents
                /\ (\A k \in sendCalls' : k.id # call.id) =>
                       Emitted' = clientEmit(call.client, "error",
                                             "Failed to send message")]_vars

\* C2 witness: a send to a receiver who is no participant was just rejected
\* with 'error' to its client while a socket is subscribed to the chat.
C2_Witness ==
    /\ \E e \in out : e.to = "log" /\ e.data = "Receiver not found in this chat"
    /\ \E e \in Emitted : e.ev = "error" /\ e.to \in Sockets
    /\ inRoom(chatRoom(chatId(1))) # {}

\* C5: a socket is in a chat's room only if its user is an active participant
\* of the chat, and newMessage is delivered only to sockets of active
\* participants of the message's chat.
C5_OnlyParticipantsSubscribed ==
    /\ \A s \in Sockets, c \in ChatIds :
           chatRoom(c) \in socketRooms[s] => isActiveParticipant(c, userId[s])
    /\ \A e \in out :
           e.ev = "newMessage" => isActiveParticipant(e.data.chatId, userId[e.to])

(***************************************************************************)
(* Session registry and presence                                           *)
(***************************************************************************)

\* The identity a token proves: the user it was issued to, None for no token.
verifyToken(tok) == tok

\* The step is handleConnection(s) registering s.
Registers(s) == conn[s] = "new" /\ conn'[s] = "connected"

\* The step closes the registered socket s.
Closes(s) == conn[s] = "connected" /\ conn'[s] = "disconnected"

\* The handshake of s carried no token or no user id.
Unidentified(s) == handshake[s].token = None \/ handshake[s].userId = None

\* C6: a socket is registered under a user identity only if the token of its
\* handshake proves that identity.
C6_RegisteredIdentityVerified ==
    \A s \in Sockets :
        userId[s] # None => verifyToken(handshake[s].token) = userId[s]

\* C7: a disconnect of a socket that is not the one registered for its user
\* leaves that user's registry entry as it is (the user stays online).
C7_StaleDisconnectKeepsEntry ==
    [][\A s \in Sockets :
          (Closes(s) /\ connectedUsers[userId[s]] # s)
              => connectedUsers'[userId[s]] = connectedUsers[userId[s]]]_vars

\* C8: every registry entry names a connected socket of that user, and the
\* socket that registered last for a user is registered while it is connected.
C8_RegistryIffConnected ==
    \A u \in Users :
        /\ connectedUsers[u] # None =>
               /\ conn[connectedUsers[u]] = "connected"
               /\ userId[connectedUsers[u]] = u
        /\ (latest[u] # None /\ conn[latest[u]] = "connected") =>
               connectedUsers[u] = latest[u]

\* C9: the step that registers a socket of u leaves u online and emits
\* userOnline(u) to exactly the other connected sockets; the step that closes a
\* socket of u leaves u offline and emits userOffline(u) to exactly the other
\* connected sockets.
C9_PresenceOnConnectAndDisconnect ==
    [][\A s \in Sockets :
          /\ Registers(s) =>
                 /\ connectedUsers'[userId'[s]] # None
                 /\ out' = {[to |-> t, ev |-> "userOnline", userId |-> userId'[s]] :
                               t \in Connected \ {s}}
          /\ Closes(s) =>
                 /\ connectedUsers'[userId[s]] = None
                 /\ out' = {[to |-> t, ev |-> "userOffline", userId |-> userId[s]] :
                               t \in Connected \ {s}}]_vars

\* C9 witness: userOffline(u) has just been delivered to a connected socket
\* that had itself been announced, and u is offline.
C9_Witness ==
    \E e \in out :
        /\ e.ev = "userOffline"
        /\ conn[e.to] = "connected"
        /\ connectedUsers[e.userId] = None

\* C10: a socket whose handshake has no token or no user id is closed without
\* ever being registered, joined to a room or announced, and the step that
\* rejects it emits nothing and leaves the registry as it is.
C10_UnidentifiedNeverRegistered ==
    /\ [](\A s \in Sockets :
            (conn[s] # "new" /\ Unidentified(s)) =>
                /\ conn[s] = "disconnected"
                /\ userId[s] = None
                /\ socketRooms[s] = {}
                /\ \A u \in Users : connectedUsers[u] # s /\ latest[u] # s)
    /\ [][\A s \in Sockets :
            (conn[s] = "new" /\ conn'[s] # "new" /\ Unidentified(s)') =>
                /\ out' = {}
                /\ connectedUsers' = connectedUsers]_vars

\* C10 witness: a socket with no token was rejected while another user is
\* registered.
C10_Witness ==
    \E s \in Sockets, u \in Users :
        /\ conn[s] = "disconnected"
        /\ handshake[s].token = None
        /\ handshake[s].userId = u
        /\ connectedUsers[u] # None

\* The connected sessions of user u.
sessionsOf(u) == {s \in Connected : userId[s] = u}

\* C21: when a sendMessage over a socket succeeds, the message is in the store,
\* a messageNotification goes to a session of the receiver if the receiver has
\* a connected session, and none goes anywhere if the receiver has none.
C21_NotificationIffOnline ==
    [][\A call \in sendCalls :
          (call.via = "ws" /\ call.pc = "emit" /\ EndsSend(call)) =>
              LET notes == {e \in out' : e.ev = "messageNotification"}
              IN  /\ Stored(call.msg.id)
                  /\ sessionsOf(call.receiverId) # {} =>
                         \E e \in notes : e.to \in sessionsOf(call.receiverId)
                  /\ sessionsOf(call.receiverId) = {} => notes = {}]_vars

\* The events of the step's emissions that go to a socket or to a request.
Delivered == {e \in out' : e.to # "log"}

C23_TypingAfterEarlierSend ==
    [][\A call \in sendCalls :
          (/\ call.via = "ws"
           /\ EndsSend(call)
           /\ \E e \in out' : e.ev \in MessageEvents /\ userId[e.to] = call.receiverId)
              => call.id \notin typed]_vars

\* The sendMessage call with the given id is in flight and its socket has
\* disconnected.
Orphaned(id) ==
    \E call \in sendCalls : call.id = id /\ conn[call.client] = "disconnected"

\* C24: a sendMessage call whose socket has disconnected still ends, and the
\* step that ends it has the message in the store and sends newMessage to
\* every socket in the room of the chat.
C24_DisconnectCancelsNothing ==
    /\ \A id \in CallIds : Orphaned(id) ~> ~(\E call \in sendCalls : call.id = id)
    /\ [][\A call \in sendCalls :
             (call.via = "ws" /\ conn[call.client] = "disconnected" /\ EndsSend(call))
                => /\ \E i \in 1..Len(chatMessages) :
                         /\ chatMessages[i].senderId = call.senderId
                         /\ chatMessages[i].id = call.msg.id
                   /\ \A s \in inRoom(chatRoom(call.chatId)) :
                         [to |-> s, ev |-> "newMessage", data |-> call.msg] \in out']_vars

\* The room was sent the newMessage of a call of s1 after s1 disconnected.
C24_Witness ==
    /\ conn["s1"] = "disconnected"
    /\ \E e \in out : e.ev = "newMessage" /\ e.to = "s2" /\ Stored(e.data.id)

\* C25: every chat has exactly two participant rows, of two distinct users;
\* the rows of a chat never change, and a new chat gets the two users of the
\* getOrCreateChat call that creates it.
C25_TwoFixedParticipants ==
    /\ [](\A c \in chats :
            /\ Cardinality(participantsOf(c.id)) = 2
            /\ Cardinality(membersOf(c.id)) = 2)
    /\ [][/\ \A c \in chats :
               /\ \E d \in chats' : d.id = c.id
               /\ {p \in chatParticipants' : p.chatId = c.id} = participantsOf(c.id)
          /\ \A d \in chats' \ chats :
               \E call \in roomCalls :
                  /\ call.pc = "create"
                  /\ call.a # call.b
                  /\ {p.userId : p \in {q \in chatParticipants' : q.chatId = d.id}}
                         = {call.a, call.b}]_vars

\* A chat of u1 and u2 exists and the creation of a chat of u1 with u1 has
\* been rejected.
C25_Witness ==
    /\ \E c \in chats : membersOf(c.id) = {"u1", "u2"}
    /\ \E e \in out : e.to = "log" /\ e.data = "Unique constraint failed"

\* C26: requests issued one after the other for the same event and the same
\* two users, in either order of the two, are answered with the same chat, and
\* the chat of an answer is a chat of the requested event and of the two users.
C26_RoomKeyedByPairAndEvent ==
    /\ \A r1, r2 \in roomResults :
          (r1.eventId = r2.eventId /\ r1.users = r2.users) => r1.chatId = r2.chatId
    /\ \A r \in roomResults :
          \E c \in chats :
             c.id = r.chatId /\ c.eventId = r.eventId /\ membersOf(c.id) = r.users

\* u1 asked for the chat with u2 and u2 for the chat with u1, for the same
\* event, and both were answered with the same chat.
C26_Witness ==
    \E r1, r2 \in roomResults :
        /\ r1.caller = "u1" /\ r2.caller = "u2"
        /\ r1.users = {"u1", "u2"} /\ r2.users = {"u1", "u2"}
        /\ r1.eventId = r2.eventId
        /\ r1.chatId = r2.chatId

\* C27: no step removes or reorders a row of chat_messages or changes any of
\* its fields but isRead: every row stays at its place with its id, chat,
\* sender, receiver, content and creation time.
C27_StoreAppendOnly ==
    [][\A i \in 1..Len(chatMessages) :
          /\ i <= Len(chatMessages')
          /\ chatMessages'[i] =
                 [chatMessages[i] EXCEPT !.isRead = chatMessages'[i].isRead]]_vars

\* Two messages are stored, the first one read before the second was appended
\* or since, and the sender's socket has disconnected.
C27_Witness ==
    /\ Len(chatMessages) = 2
    /\ chatMessages[1].isRead
    /\ ~chatMessages[2].isRead
    /\ conn["s1"] = "disconnected"

\* The events of the typing handlers.
TypingEvents == {"userTyping", "userStoppedTyping"}

\* C28: a typing or stopTyping of a socket sends its event only to connected
\* sockets of the named receiver, with the chat and the sender's user id, sends
\* nothing from a socket without an identity, and leaves the messages, the
\* chats, their participants, the connections, the rooms of the sockets and
\* connectedUsers as they are.
C28_TypingOnlyToReceiver ==
    [][\A s \in Sockets, c \in ChatIds, r \in Users :
          (handleTyping(s, c, r) \/ handleStopTyping(s, c, r)) =>
              /\ \A e \in out' :
                    /\ e.ev \in TypingEvents
                    /\ e.to \in sessionsOf(r)
                    /\ e.data = [chatId |-> c, userId |-> userId[s]]
              /\ userId[s] = None => out' = {}
              /\ UNCHANGED <<chatMessages, chats, chatParticipants, conn, userId,
                             socketRooms, connectedUsers>>]_vars

\* u2's socket was sent userTyping of u1 while u1's socket is in the room of
\* the chat, and u1's socket was sent nothing.
C28_Witness ==
    /\ chatRoom(chatId(1)) \in socketRooms["s1"]
    /\ out = {[to |-> "s2", ev |-> "userTyping",
               data |-> [chatId |-> chatId(1), userId |-> "u1"]]}

\* C29: a socket is sent the newMessage of a message only by the step that
\* ends the sendMessage call of that message, only if it is in the room of the
\* chat at that step, and only if its user has not been sent that message
\* before.
C29_RoomDeliveryAtMostOnce ==
    [][\A e \in out' :
          e.ev = "newMessage" =>
              /\ e.to \in inRoom(chatRoom(e.data.chatId))
              /\ [userId |-> userId[e.to], msg |-> e.data.id] \notin observed
              /\ \E call \in sendCalls :
                    /\ call.pc = "emit"
                    /\ call.msg = e.data
                    /\ EndsSend(call)]_vars

\* s1 was sent a newMessage while s3 is connected and not in the room of the
\* chat, and s3 was sent nothing.
C29_Witness ==
    /\ \E e \in out : e.ev = "newMessage" /\ e.to = "s1"
    /\ conn["s3"] = "connected"
    /\ chatRoom(chatId(1)) \notin socketRooms["s3"]
    /\ \A e \in out : e.to # "s3"

\* C30: the first step of a getChatMessages call of a user who is no active
\* participant of the chat ends the call: it answers with an error and no
\* messages, and leaves chat_messages as it is.
C30_OutsiderHistoryRejected ==
    [][\A call \in histCalls :
          (~isActiveParticipant(call.chatId, call.userId) /\ histCalls' # histCalls) =>
              /\ histCalls' = histCalls \ {call}
              /\ chatMessages' = chatMessages
              /\ \E e \in out' :
                    /\ e.to = "http" /\ e.ev = "getChatMessages"
                    /\ e.userId = call.userId /\ ~e.ok
                    /\ e.data = "User not authorized for this chat"
              /\ \A e \in out' : e.to = "http" => ~e.ok]_vars

\* The outsider u3 was refused the history of the chat while the chat holds an
\* unread message.
C30_Witness ==
    /\ \E e \in out : e.to = "http" /\ e.ev = "getChatMessages"
                        /\ e.userId = "u3" /\ ~e.ok
    /\ \E i \in 1..Len(chatMessages) : ~chatMessages[i].isRead

\* The first 50 units of a content followed by '...', or the content itself if
\* it has at most 50 units.
Truncated(content) ==
    IF Len(content) <= 50
    THEN content
    ELSE [i \in 1..53 |-> IF i <= 50 THEN content[i] ELSE "."]

\* C31: the step that ends a sendMessage call sends messageNotification with
\* the content cut to 50 characters and '...' if it is longer than 50 and with
\* the content itself otherwise, and sends newMessage with the whole content,
\* which is also the content of the stored row.
C31_NotificationContentTruncated ==
    [][\A call \in sendCalls :
          (call.via = "ws" /\ call.pc = "emit" /\ EndsSend(call)) =>
              /\ \A e \in out' :
                    /\ e.ev = "messageNotification" =>
                           e.data.content = Truncated(call.content)
                    /\ e.ev = "newMessage" => e.data.content = call.content
              /\ \E i \in 1..Len(chatMessages) :
                    /\ chatMessages[i].id = call.msg.id
                    /\ chatMessages[i].content = call.content]_vars

\* For a stored message of 51 units the receiver's socket was sent a
\* notification of 50 units and '...', and the room the newMessage of 51 units.
C31_Witness ==
    /\ \E e \in out : /\ e.ev = "messageNotification"
                       /\ e.to = "s2"
                       /\ e.data.content = [i \in 1..53 |-> IF i <= 50 THEN "a" ELSE "."]
    /\ \E e \in out : e.ev = "newMessage" /\ e.data.content = Text(51)
    /\ \E i \in 1..Len(chatMessages) : chatMessages[i].content = Text(51)

\* C32: a step sets the read flag of a message only if it is the updateMany of
\* a getChatMessages call of the message's receiver on the message's chat, or
\* the update of a markMessageAsRead call of the receiver for that message.
C32_ReadOnlyByReceiver ==
    [][\A i \in 1..Len(chatMessages) :
          (~chatMessages[i].isRead /\ chatMessages'[i].isRead) =>
              \/ \E call \in histCalls :
                    /\ call.pc = "updateMany"
                    /\ call.userId = chatMessages[i].receiverId
                    /\ call.chatId = chatMessages[i].chatId
                    /\ histCalls' = histCalls \ {call}
              \/ \E call \in markCalls :
                    /\ call.pc = "update"
                    /\ call.userId = chatMessages[i].receiverId
                    /\ call.messageId = chatMessages[i].id
                    /\ EndsMark(call)]_vars

\* The sender u1 was returned a page with a message it sent to u2, and the
\* message is unread in the store.
C32_Witness ==
    \E e \in HistoryReplies :
        /\ e.data.userId = "u1"
        /\ \E k \in 1..Len(e.data.messages) :
              /\ e.data.messages[k].senderId = "u1"
              /\ ~chatMessages[appendIndex(e.data.messages[k].id)].isRead

\* C33: the updateMany of a getChatMessages call sets the read flag of no
\* message but those of the page the call returns.
C33_OnlyReturnedMarkedRead ==
    [][\A call \in histCalls :
          (call.pc = "updateMany" /\ histCalls' = histCalls \ {call}) =>
              \A i \in 1..Len(chatMessages) :
                  (~chatMessages[i].isRead /\ chatMessages'[i].isRead) =>
                      \E k \in 1..Len(call.messages) :
                          call.messages[k].id = chatMessages[i].id]_vars

\* The answers to getChatList among the events of the step's emissions.
ListReplies == {e \in out' : e.to = "http" /\ e.ev = "getChatList" /\ e.ok}

\* The messages of chat c addressed to user u that are unread.
UnreadOf(c, u) ==
    {i \in 1..Len(chatMessages) :
        /\ chatMessages[i].chatId = c
        /\ chatMessages[i].receiverId = u
        /\ ~chatMessages[i].isRead}

\* C34: every entry of a chat list gives as unreadCount the number of unread
\* messages of the chat addressed to the user of the list; in a list asked
\* right after a history of the chat was returned to that user, it is 0.
C34_UnreadCountExact ==
    [][\A e \in ListReplies :
          \A k \in 1..Len(e.data) :
              /\ e.data[k].unreadCount = Cardinality(UnreadOf(e.data[k].chatId, e.userId))
              /\ (\E h \in HistoryReplies :
                     h.userId = e.userId /\ h.data.chatId = e.data[k].chatId)
                    => e.data[k].unreadCount = 0]_vars

\* u2's list shows one unread message for the chat, whose other message u2
\* has read.
C34_Witness ==
    /\ \E e \in out : /\ e.to = "http" /\ e.ev = "getChatList" /\ e.userId = "u2"
                       /\ Len(e.data) = 1
                       /\ e.data[1].unreadCount = 1
                       /\ Len(e.data[1].lastMessage) = 1
    /\ Len(chatMessages) = 2
    /\ \E i \in 1..2 : chatMessages[i].isRead

\* C35: the sender and the receiver of every stored message are two distinct
\* users, both active participants of the message's chat.
C35_SenderAndReceiverDistinct ==
    \A i \in 1..Len(chatMessages) :
        /\ isActiveParticipant(chatMessages[i].chatId, chatMessages[i].senderId)
        /\ isActiveParticipant(chatMessages[i].chatId, chatMessages[i].receiverId)
        /\ chatMessages[i].senderId # chatMessages[i].receiverId

\* The step ends the joinEvent call with an error.
JoinRejected(call) ==
    /\ call \notin joinCalls'
    /\ \A k \in joinCalls' : k.id # call.id
    /\ \E e \in out' : e.to = "http" /\ e.ev = "joinEvent" /\ ~e.ok

\* C36: an event with maxParticipants never has more participants than that,
\* and a joinEvent call that ends with an error leaves event_participants as
\* it is.
C36_MaxParticipantsRespected ==
    /\ [](\A e \in Events :
            maxParticipants(e) # 0 => countParticipants(e) <= maxParticipants(e))
    /\ [][\A call \in joinCalls :
             JoinRejected(call) => eventParticipants' = eventParticipants]_vars

====
